---- MODULE Spec2Model ----
(***************************************************************************)
(* A model of the film application: the three tables of app.py (users,     *)
(* ratings, favorites), the Flask session of one browser, the request      *)
(* handlers of app.py and the catalog client of tmdb.py.                   *)
(*                                                                         *)
(* Tables are modelled without their surrogate "id" column where no        *)
(* handler reads it (ratings, favorites): such a table is a bag of rows,   *)
(* so that two rows with the same (user_id, movie_id) remain two rows.     *)
(* The users table keeps its id: the session and the foreign keys hold it. *)
(***************************************************************************)
EXTENDS Integers, Sequences, FiniteSets, Bags, TLC

VARIABLES
    users,      \* table "users": a set of rows [id, username, email, password_hash]
    ratings,    \* table "ratings": a bag of rows [user_id, movie_id, rating]
    favorites,  \* table "favorites": a bag of rows [user_id, movie_id]
    session,    \* the browser's Flask session: [user_id, lang]
    inflight,   \* per worker thread: the request it is in the middle of
    last        \* the response to the most recent request (what the caller sees)

vars == <<users, ratings, favorites, session, inflight, last>>

(***************************************************************************)
(* Python's None and a present value.                                      *)
(***************************************************************************)
None == <<>>
Some(x) == <<x>>
TheValue(opt) == opt[1]

(***************************************************************************)
(* The inputs the environment draws from.                                  *)
(***************************************************************************)
Usernames == {"ann", "bob", "x@y"}
Emails == {"ann@m", "x@y"}
Passwords == {"pw1", "pw2"}
Salts == {"s1", "s2"}
Movies == {42, 43}
Langs == {"hu", "en", "de"}
NThreads == 2
Threads == 1..NThreads

\* the people who register in the specifications about ratings and favorites
People ==
    { [username |-> "ann", email |-> "ann@m", password |-> "pw1"],
      [username |-> "bob", email |-> "x@y", password |-> "pw2"] }

(***************************************************************************)
(* werkzeug.security: a salted one-way hash. The digest is an ideal hash   *)
(* of (salt, password): equal only for equal inputs.                       *)
(***************************************************************************)
Digest(salt, password) == <<"pbkdf2", salt, password>>

generate_password_hash(password, salt) ==
    [salt |-> salt, digest |-> Digest(salt, password)]

\* (a faulty variant: only the method prefix of the digest is compared, so any
\* password verifies)
check_password_hash_any(pwhash, password) ==
    pwhash.digest[1] = Digest(pwhash.salt, password)[1]

check_password_hash(pwhash, password) ==
    pwhash.digest = Digest(pwhash.salt, password)

\* User.check_password
check_password(user, password) == check_password_hash(user.password_hash, password)

(***************************************************************************)
(* The users table.                                                        *)
(***************************************************************************)
Max(S) == CHOOSE m \in S : \A n \in S : n <= m

\* INTEGER PRIMARY KEY: one more than the largest id in the table
NextUserId(tbl) == IF tbl = {} THEN 1 ELSE Max({r.id : r \in tbl}) + 1

\* unique=True on username and on email
UserUniqueViolation(tbl, username, email) ==
    \E r \in tbl : r.username = username \/ r.email = email

\* db.session.add(new_user); db.session.commit(): the new table, or the
\* IntegrityError of a violated unique constraint
InsertUser(tbl, username, email, pwhash) ==
    IF UserUniqueViolation(tbl, username, email)
    THEN [ok |-> FALSE, table |-> tbl]
    ELSE [ok |-> TRUE,
          table |-> tbl \cup {[id |-> NextUserId(tbl), username |-> username,
                               email |-> email, password_hash |-> pwhash]}]

\* (a faulty variant: the filter joins its two conditions with & instead of |)
UsersByUsernameAndEmail(tbl, a, b) ==
    {r \in tbl : r.username = a /\ r.email = b}

\* User.query.filter((User.username == a) | (User.email == b)): the rows selected
UsersByUsernameOrEmail(tbl, a, b) ==
    {r \in tbl : r.username = a \/ r.email = b}

\* Query.first(): None on an empty result, else one of its rows (the query
\* has no ORDER BY, so which row comes first is the database's choice)
First(rows) == IF rows = {} THEN {None} ELSE {Some(r) : r \in rows}

\* load_user / current_user: the user the session's id resolves to
load_user(tbl, user_id) ==
    IF user_id = None THEN None
    ELSE IF \E r \in tbl : r.id = TheValue(user_id)
         THEN Some(CHOOSE r \in tbl : r.id = TheValue(user_id))
         ELSE None

current_user == load_user(users, session.user_id)
is_authenticated == current_user # None
current_user_id == TheValue(current_user).id

Idle == [pc |-> "idle"]

Init ==
    /\ users = {}
    /\ ratings = EmptyBag
    /\ favorites = EmptyBag
    /\ session = [user_id |-> None, lang |-> None]
    /\ inflight = [t \in Threads |-> Idle]
    /\ last = [op |-> "start"]

(***************************************************************************)
(* register (POST)                                                         *)
(***************************************************************************)
RegisterResponse(username, email, existing_user, inserted) ==
    IF existing_user # None
    THEN [op |-> "register", username |-> username, email |-> email,
          status |-> "conflict", redirect |-> "register",
          flash |-> "Ez a felhasznalonev vagy email mar letezik!"]
    ELSE IF ~inserted.ok
    THEN [op |-> "register", username |-> username, email |-> email,
          status |-> "error", exc |-> "IntegrityError"]
    ELSE [op |-> "register", username |-> username, email |-> email,
          status |-> "ok", redirect |-> "login",
          flash |-> "Sikeres regisztracio! Jelentkezz be!"]

Register(username, email, password, salt) ==
    \E existing_user \in First(UsersByUsernameOrEmail(users, username, email)) :
        LET inserted == InsertUser(users, username, email,
                                   generate_password_hash(password, salt))
        IN /\ users' = IF existing_user # None THEN users ELSE inserted.table
           /\ last' = RegisterResponse(username, email, existing_user, inserted)
           /\ UNCHANGED <<ratings, favorites, session, inflight>>

(***************************************************************************)
(* login (POST), logout                                                    *)
(***************************************************************************)
LoginSucceeds(user, password) ==
    user # None /\ check_password(TheValue(user), password)

LoginResponse(identifier, password, user) ==
    IF LoginSucceeds(user, password)
    THEN [op |-> "login", identifier |-> identifier, password |-> password,
          status |-> "ok", redirect |-> "index", flash |-> "Sikeres bejelentkezes!"]
    ELSE [op |-> "login", identifier |-> identifier, password |-> password,
          status |-> "invalid", redirect |-> "", flash |-> "Hibas adatok!"]

Login(identifier, password) ==
    \E user \in First(UsersByUsernameOrEmail(users, identifier, identifier)) :
        /\ session' = IF LoginSucceeds(user, password)
                      THEN [session EXCEPT !.user_id = Some(TheValue(user).id)]
                      ELSE session
        /\ last' = LoginResponse(identifier, password, user)
        /\ UNCHANGED <<users, ratings, favorites, inflight>>

\* @login_required: an unauthenticated request is redirected to the login view
LoginRequiredResponse(op) ==
    [op |-> op, status |-> "login_required", redirect |-> "login", flash |-> ""]

\* (a faulty variant: logout_user() is not called)
LogoutKeepsSession ==
    /\ session' = session
    /\ last' = IF is_authenticated
               THEN [op |-> "logout", status |-> "ok", redirect |-> "login",
                     flash |-> "Sikeresen kijelentkeztel!"]
               ELSE LoginRequiredResponse("logout")
    /\ UNCHANGED <<users, ratings, favorites, inflight>>

Logout ==
    /\ IF is_authenticated
       THEN /\ session' = [session EXCEPT !.user_id = None]
            /\ last' = [op |-> "logout", status |-> "ok", redirect |-> "login",
                        flash |-> "Sikeresen kijelentkeztel!"]
       ELSE /\ session' = session
            /\ last' = LoginRequiredResponse("logout")
    /\ UNCHANGED <<users, ratings, favorites, inflight>>

(***************************************************************************)
(* set_language                                                            *)
(***************************************************************************)
\* (a faulty variant: the argument is stored as it arrives)
SetLanguageUnchecked(lang) ==
    /\ session' = [session EXCEPT !.lang = Some(lang)]
    /\ last' = [op |-> "set_language", lang |-> lang, status |-> "ok"]
    /\ UNCHANGED <<users, ratings, favorites, inflight>>

SetLanguage(lang) ==
    /\ session' = [session EXCEPT
                     !.lang = Some(IF lang \notin {"hu", "en"} THEN "hu" ELSE lang)]
    /\ last' = [op |-> "set_language", lang |-> lang, status |-> "ok"]
    /\ UNCHANGED <<users, ratings, favorites, inflight>>

(***************************************************************************)
(* The ratings table: UniqueConstraint("user_id", "movie_id").             *)
(***************************************************************************)
One(row) == SetToBag({row})

\* Rating.query.filter_by(user_id=..., movie_id=...): the rows selected
RatingsOf(tbl, user_id, movie_id) ==
    {r \in BagToSet(tbl) : r.user_id = user_id /\ r.movie_id = movie_id}

\* Rating.query.filter_by(movie_id=...).all(): every copy of every row selected
RatingsOfMovie(tbl, movie_id) ==
    [r \in {x \in BagToSet(tbl) : x.movie_id = movie_id} |-> CopiesIn(r, tbl)]

\* (a faulty variant: the table has no unique constraint)
InsertRatingUnchecked(tbl, user_id, movie_id, value) ==
    [ok |-> TRUE,
     table |-> tbl (+) One([user_id |-> user_id, movie_id |-> movie_id,
                            rating |-> value])]

\* db.session.add(Rating(...)); db.session.commit(): the new table, or the
\* IntegrityError of the violated unique constraint
InsertRating(tbl, user_id, movie_id, value) ==
    IF RatingsOf(tbl, user_id, movie_id) # {}
    THEN [ok |-> FALSE, table |-> tbl]
    ELSE [ok |-> TRUE,
          table |-> tbl (+) One([user_id |-> user_id, movie_id |-> movie_id,
                                 rating |-> value])]

\* (a faulty variant: the new value is not written to the row that exists)
UpdateRatingSkipped(tbl, existing, value) ==
    [ok |-> TRUE, table |-> tbl]

\* existing.rating = value; db.session.commit(): UPDATE of the row loaded, by
\* its primary key. Rows are never deleted and the key (user_id, movie_id) is
\* unique, so the key finds the row whatever value it holds by now. No UPDATE
\* is sent when the value assigned is the value loaded.
UpdateRating(tbl, existing, value) ==
    IF value = existing.rating THEN [ok |-> TRUE, table |-> tbl]
    ELSE LET stored == CHOOSE r \in RatingsOf(tbl, existing.user_id, existing.movie_id) : TRUE
         IN [ok |-> TRUE,
             table |-> (tbl (-) One(stored)) (+) One([stored EXCEPT !.rating = value])]

\* int(request.form.get("rating")): the integer a form value spells, if any
Digits == [s \in {"3", "4", "5"} |-> CASE s = "3" -> 3 [] s = "4" -> 4 [] s = "5" -> 5]
ParseInt(form) == IF form \in DOMAIN Digits THEN Some(Digits[form]) ELSE None
RatingForms == DOMAIN Digits \cup {"abc"}

(***************************************************************************)
(* The favorites table: UniqueConstraint("user_id", "movie_id").           *)
(***************************************************************************)
\* (a faulty variant: the filter forgets the user)
FavoritesOfAnyUser(tbl, user_id, movie_id) ==
    {r \in BagToSet(tbl) : r.movie_id = movie_id}

\* Favorite.query.filter_by(user_id=..., movie_id=...): the rows selected
FavoritesOf(tbl, user_id, movie_id) ==
    {r \in BagToSet(tbl) : r.user_id = user_id /\ r.movie_id = movie_id}

\* (a faulty variant: the table has no unique constraint)
InsertFavoriteUnchecked(tbl, user_id, movie_id) ==
    [ok |-> TRUE, table |-> tbl (+) One([user_id |-> user_id, movie_id |-> movie_id])]

\* db.session.add(Favorite(...)); db.session.commit()
InsertFavorite(tbl, user_id, movie_id) ==
    IF FavoritesOf(tbl, user_id, movie_id) # {}
    THEN [ok |-> FALSE, table |-> tbl]
    ELSE [ok |-> TRUE,
          table |-> tbl (+) One([user_id |-> user_id, movie_id |-> movie_id])]

\* (a faulty variant: the delete is never committed)
DeleteFavoriteSkipped(tbl, fav) == tbl

\* (a faulty variant: every favorite of the row's user goes)
DeleteFavoriteOfUser(tbl, fav) ==
    [r \in {x \in BagToSet(tbl) : x.user_id # fav.user_id} |-> CopiesIn(r, tbl)]

\* db.session.delete(fav); db.session.commit(): one row goes
DeleteFavorite(tbl, fav) == tbl (-) One(fav)

(***************************************************************************)
(* rate_movie (POST, @login_required)                                      *)
(***************************************************************************)
RateResponse(user_id, movie_id, form, existing, committed) ==
    IF ParseInt(form) = None
    THEN [op |-> "rate_movie", user_id |-> user_id, movie_id |-> movie_id,
          form |-> form, existing |-> None,
          status |-> "error", exc |-> "ValueError"]
    ELSE IF ~committed.ok
    THEN [op |-> "rate_movie", user_id |-> user_id, movie_id |-> movie_id,
          form |-> form, existing |-> existing,
          status |-> "error", exc |-> "IntegrityError"]
    ELSE [op |-> "rate_movie", user_id |-> user_id, movie_id |-> movie_id,
          form |-> form, existing |-> existing,
          status |-> "ok", redirect |-> "movie_details",
          flash |-> "Sikeresen ertekelted a filmet!"]

\* what the commit of rate_movie does, given the row the query found
CommitRating(tbl, user_id, movie_id, value, existing) ==
    IF existing # None
    THEN UpdateRating(tbl, TheValue(existing), value)
    ELSE InsertRating(tbl, user_id, movie_id, value)

RateMovie(movie_id, form) ==
    IF ~is_authenticated
    THEN /\ last' = LoginRequiredResponse("rate_movie")
         /\ UNCHANGED <<users, ratings, favorites, session, inflight>>
    ELSE IF ParseInt(form) = None
    THEN /\ last' = RateResponse(current_user_id, movie_id, form, None, None)
         /\ UNCHANGED <<users, ratings, favorites, session, inflight>>
    ELSE \E existing \in First(RatingsOf(ratings, current_user_id, movie_id)) :
            LET committed == CommitRating(ratings, current_user_id, movie_id,
                                          TheValue(ParseInt(form)), existing)
            IN /\ ratings' = committed.table
               /\ last' = RateResponse(current_user_id, movie_id, form,
                                       existing, committed)
               /\ UNCHANGED <<users, favorites, session, inflight>>

(***************************************************************************)
(* add_favorite, remove_favorite (@login_required)                         *)
(***************************************************************************)
AddFavoriteResponse(user_id, movie_id, fav, committed) ==
    IF fav # None
    THEN [op |-> "add_favorite", user_id |-> user_id, movie_id |-> movie_id,
          status |-> "already", redirect |-> "movie_details",
          flash |-> "Ez a film mar a kedvencek kozott van!"]
    ELSE IF ~committed.ok
    THEN [op |-> "add_favorite", user_id |-> user_id, movie_id |-> movie_id,
          status |-> "error", exc |-> "IntegrityError"]
    ELSE [op |-> "add_favorite", user_id |-> user_id, movie_id |-> movie_id,
          status |-> "ok", redirect |-> "movie_details",
          flash |-> "Hozzaadva a kedvencekhez!"]

AddFavorite(movie_id) ==
    IF ~is_authenticated
    THEN /\ last' = LoginRequiredResponse("add_favorite")
         /\ UNCHANGED <<users, ratings, favorites, session, inflight>>
    ELSE \E fav \in First(FavoritesOf(favorites, current_user_id, movie_id)) :
            LET committed == InsertFavorite(favorites, current_user_id, movie_id)
            IN /\ favorites' = IF fav # None THEN favorites ELSE committed.table
               /\ last' = AddFavoriteResponse(current_user_id, movie_id, fav, committed)
               /\ UNCHANGED <<users, ratings, session, inflight>>

RemoveFavoriteResponse(user_id, movie_id, fav) ==
    IF fav # None
    THEN [op |-> "remove_favorite", user_id |-> user_id, movie_id |-> movie_id,
          status |-> "ok", redirect |-> "favorites",
          flash |-> "Kedvencekbol eltavolitva!"]
    ELSE [op |-> "remove_favorite", user_id |-> user_id, movie_id |-> movie_id,
          status |-> "not_found", redirect |-> "favorites",
          flash |-> "Ez a film nincs a kedvencek kozott!"]

RemoveFavorite(movie_id) ==
    IF ~is_authenticated
    THEN /\ last' = LoginRequiredResponse("remove_favorite")
         /\ UNCHANGED <<users, ratings, favorites, session, inflight>>
    ELSE \E fav \in First(FavoritesOf(favorites, current_user_id, movie_id)) :
            /\ favorites' = IF fav # None
                            THEN DeleteFavorite(favorites, TheValue(fav))
                            ELSE favorites
            /\ last' = RemoveFavoriteResponse(current_user_id, movie_id, fav)
            /\ UNCHANGED <<users, ratings, session, inflight>>

(***************************************************************************)
(* The same handlers as two steps of a worker thread: the query, and then  *)
(* the commit, with other threads' steps possibly in between.  The thread  *)
(* resolves current_user when the request starts.                          *)
(***************************************************************************)
IsIdle(t) == inflight[t].pc = "idle"
Running(t, op) == inflight[t].pc = "commit" /\ inflight[t].op = op

RegisterQuery(t, username, email, password, salt) ==
    /\ IsIdle(t)
    /\ \E existing_user \in First(UsersByUsernameOrEmail(users, username, email)) :
          IF existing_user # None
          THEN /\ last' = RegisterResponse(username, email, existing_user, None)
               /\ UNCHANGED inflight
          ELSE /\ inflight' = [inflight EXCEPT ![t] =
                     [pc |-> "commit", op |-> "register", username |-> username,
                      email |-> email,
                      password_hash |-> generate_password_hash(password, salt)]]
               /\ UNCHANGED last
    /\ UNCHANGED <<users, ratings, favorites, session>>

RegisterCommit(t) ==
    /\ Running(t, "register")
    /\ LET req == inflight[t]
           inserted == InsertUser(users, req.username, req.email, req.password_hash)
       IN /\ users' = inserted.table
          /\ last' = RegisterResponse(req.username, req.email, None, inserted)
    /\ inflight' = [inflight EXCEPT ![t] = Idle]
    /\ UNCHANGED <<ratings, favorites, session>>

AddFavoriteQuery(t, movie_id) ==
    /\ IsIdle(t)
    /\ IF ~is_authenticated
       THEN /\ last' = LoginRequiredResponse("add_favorite")
            /\ UNCHANGED inflight
       ELSE \E fav \in First(FavoritesOf(favorites, current_user_id, movie_id)) :
               IF fav # None
               THEN /\ last' = AddFavoriteResponse(current_user_id, movie_id, fav, None)
                    /\ UNCHANGED inflight
               ELSE /\ inflight' = [inflight EXCEPT ![t] =
                          [pc |-> "commit", op |-> "add_favorite",
                           user_id |-> current_user_id, movie_id |-> movie_id]]
                    /\ UNCHANGED last
    /\ UNCHANGED <<users, ratings, favorites, session>>

AddFavoriteCommit(t) ==
    /\ Running(t, "add_favorite")
    /\ LET req == inflight[t]
           committed == InsertFavorite(favorites, req.user_id, req.movie_id)
       IN /\ favorites' = committed.table
          /\ last' = AddFavoriteResponse(req.user_id, req.movie_id, None, committed)
    /\ inflight' = [inflight EXCEPT ![t] = Idle]
    /\ UNCHANGED <<users, ratings, session>>

RateMovieQuery(t, movie_id, form) ==
    /\ IsIdle(t)
    /\ IF ~is_authenticated
       THEN /\ last' = LoginRequiredResponse("rate_movie")
            /\ UNCHANGED inflight
       ELSE IF ParseInt(form) = None
       THEN /\ last' = RateResponse(current_user_id, movie_id, form, None, None)
            /\ UNCHANGED inflight
       ELSE \E existing \in First(RatingsOf(ratings, current_user_id, movie_id)) :
               /\ inflight' = [inflight EXCEPT ![t] =
                     [pc |-> "commit", op |-> "rate_movie",
                      user_id |-> current_user_id, movie_id |-> movie_id,
                      form |-> form, existing |-> existing]]
               /\ UNCHANGED last
    /\ UNCHANGED <<users, ratings, favorites, session>>

RateMovieCommit(t) ==
    /\ Running(t, "rate_movie")
    /\ LET req == inflight[t]
           committed == CommitRating(ratings, req.user_id, req.movie_id,
                                     TheValue(ParseInt(req.form)), req.existing)
       IN /\ ratings' = committed.table
          /\ last' = RateResponse(req.user_id, req.movie_id, req.form,
                                  req.existing, committed)
    /\ inflight' = [inflight EXCEPT ![t] = Idle]
    /\ UNCHANGED <<users, favorites, session>>

(***************************************************************************)
(* JSON values as Python sees them, and what a call does: it returns a     *)
(* value or raises.                                                        *)
(***************************************************************************)
JNull == [t |-> "null"]
JNum(n) == [t |-> "num", v |-> n]
JStr(str) == [t |-> "str", v |-> str]
JList(seq) == [t |-> "list", v |-> seq]
JDict(f) == [t |-> "dict", v |-> f]
JFloat(num, den) == [t |-> "float", v |-> <<num, den>>]
EmptyList == JList(<<>>)
EmptyDict == JDict(<<>>)

Raise(exc) == [raised |-> TRUE, exc |-> exc]
Returned(value) == [raised |-> FALSE, value |-> value]

\* bool(x)
Truthy(x) ==
    CASE x.t = "null" -> FALSE
      [] x.t = "num" -> x.v # 0
      [] x.t = "float" -> x.v[1] # 0
      [] x.t = "str" -> x.v # ""
      [] x.t = "list" -> x.v # <<>>
      [] x.t = "dict" -> DOMAIN x.v # {}

\* x.get(key, default): only a dict has .get
DictGet(x, key, default) ==
    IF x.t # "dict" THEN Raise("AttributeError")
    ELSE IF key \in DOMAIN x.v THEN Returned(x.v[key]) ELSE Returned(default)

\* x[:limit] for limit >= 0: a list or a string can be sliced
Slice(x, limit) ==
    CASE x.t = "list" ->
           Returned(JList(SubSeq(x.v, 1, IF limit < Len(x.v) THEN limit ELSE Len(x.v))))
      [] x.t = "str" -> Returned(x)
      [] OTHER -> Raise("TypeError")

(***************************************************************************)
(* The remote catalog: what happens to one HTTP GET.                       *)
(***************************************************************************)
NotJson == [json |-> FALSE]
Json(value) == [json |-> TRUE, value |-> value]
ConnectionError == [kind |-> "connection_error"]
Timeout == [kind |-> "timeout"]
Response(status_code, body) ==
    [kind |-> "response", status_code |-> status_code, body |-> body]

CatalogMovie(movie_id) ==
    JDict([id |-> JNum(movie_id), poster_path |-> JStr("/p.jpg"),
           genre_ids |-> JList(<<JNum(28)>>)])
PopularBody == JDict([page |-> JNum(1),
                      results |-> JList(<<CatalogMovie(42), CatalogMovie(43)>>)])
GenresBody == JDict([genres |-> JList(<<JDict([id |-> JNum(28), name |-> JStr("Action")])>>)])
ErrorBody == JDict([status_code |-> JNum(34), status_message |-> JStr("not found")])

\* the outcomes the specification's error policy names
FailedRemotes ==
    { ConnectionError, Timeout,
      Response(404, Json(ErrorBody)), Response(500, NotJson),
      Response(200, NotJson) }
Remotes ==
    FailedRemotes \cup
    { Response(200, Json(b)) :
        b \in {PopularBody, GenresBody, CatalogMovie(42), ErrorBody, JNull, EmptyList} }

\* the failure classes of an outcome
IsNetworkFailure(remote) == remote.kind = "connection_error"
IsTimeout(remote) == remote.kind = "timeout"
IsNon2xx(remote) == remote.kind = "response" /\ remote.status_code \notin 200..299
IsMalformedBody(remote) == remote.kind = "response" /\ ~remote.body.json

(***************************************************************************)
(* Language negotiation: session.get("lang", "hu").                        *)
(***************************************************************************)
SessionLang == IF session.lang = None THEN "hu" ELSE TheValue(session.lang)

\* (a faulty variant: the preference is compared with the code to return)
get_tmdb_language_code == IF SessionLang = "en-US" THEN "en-US" ELSE "hu-HU"

\* app.py
get_tmdb_language == IF SessionLang = "en" THEN "en-US" ELSE "hu-HU"

\* tmdb.py
tmdb_get_tmdb_language == IF SessionLang = "hu" THEN "hu-HU" ELSE "en-US"

(***************************************************************************)
(* tmdb.py: the catalog client                                             *)
(***************************************************************************)
\* fallback or {}
FallbackOr(fallback) == IF Truthy(fallback) THEN fallback ELSE EmptyDict

\* (a faulty variant: the status code is not looked at)
safe_tmdb_request_any_status(remote, fallback) ==
    IF remote.kind # "response" THEN Returned(FallbackOr(fallback))
    ELSE IF ~remote.body.json THEN Returned(FallbackOr(fallback))
    ELSE Returned(remote.body.value)

\* requests.get(..., timeout=5) inside try/except Exception
safe_tmdb_request(remote, fallback) ==
    IF remote.kind # "response" THEN Returned(FallbackOr(fallback))
    ELSE IF remote.status_code # 200 THEN Returned(FallbackOr(fallback))
    ELSE IF ~remote.body.json THEN Returned(FallbackOr(fallback))
    ELSE Returned(remote.body.value)

\* data.get("results", []) on what safe_tmdb_request returned
tmdb_get_popular_movies(remote) ==
    LET data == safe_tmdb_request(remote, JDict([results |-> EmptyList]))
    IN IF data.raised THEN data ELSE DictGet(data.value, "results", EmptyList)

tmdb_get_movie_details(remote) ==
    safe_tmdb_request(remote, EmptyDict)

\* data.get("results", [])[:limit]
tmdb_get_similar_movies(remote, limit) ==
    LET data == safe_tmdb_request(remote, JDict([results |-> EmptyList]))
        results == IF data.raised THEN data
                   ELSE DictGet(data.value, "results", EmptyList)
    IN IF results.raised THEN results ELSE Slice(results.value, limit)

\* data.get("genres", [])
tmdb_get_genres(remote) ==
    LET data == safe_tmdb_request(remote, JDict([genres |-> EmptyList]))
    IN IF data.raised THEN data ELSE DictGet(data.value, "genres", EmptyList)

CatalogCall(op, endpoint, language, remote, outcome) ==
    /\ last' = [op |-> op, endpoint |-> endpoint, language |-> language,
                remote |-> remote, outcome |-> outcome]
    /\ UNCHANGED <<users, ratings, favorites, session, inflight>>

TmdbGetPopularMovies(remote) ==
    CatalogCall("tmdb.get_popular_movies", "movie/popular",
                tmdb_get_tmdb_language, remote, tmdb_get_popular_movies(remote))

TmdbGetMovieDetails(movie_id, remote) ==
    CatalogCall("tmdb.get_movie_details", <<"movie", movie_id>>,
                tmdb_get_tmdb_language, remote, tmdb_get_movie_details(remote))

\* (a faulty variant: the language follows the session like the other calls)
TmdbGetSimilarMoviesInSessionLanguage(movie_id, limit, remote) ==
    CatalogCall("tmdb.get_similar_movies", <<"movie", movie_id, "similar">>,
                tmdb_get_tmdb_language, remote, tmdb_get_similar_movies(remote, limit))

TmdbGetSimilarMovies(movie_id, limit, remote) ==
    CatalogCall("tmdb.get_similar_movies", <<"movie", movie_id, "similar">>,
                "en-US", remote, tmdb_get_similar_movies(remote, limit))

TmdbGetGenres(remote) ==
    CatalogCall("tmdb.get_genres", "genre/movie/list",
                tmdb_get_tmdb_language, remote, tmdb_get_genres(remote))

(***************************************************************************)
(* app.py: its own catalog calls, requests.get(url, params).json()         *)
(***************************************************************************)
\* requests.get(...).json() with no timeout and no try: a connection that
\* fails raises, one that never answers ends when the operating system gives
\* the connection up, and a body that is not JSON raises in .json(); the
\* status code is not looked at
requests_get_json(remote) ==
    IF remote.kind # "response" THEN Raise("ConnectionError")
    ELSE IF ~remote.body.json THEN Raise("JSONDecodeError")
    ELSE Returned(remote.body.value)

\* app.get_popular_movies
get_popular_movies(remote) ==
    LET response == requests_get_json(remote)
    IN IF response.raised THEN response
       ELSE DictGet(response.value, "results", EmptyList)

\* index: an exception in the view is answered with a 500 by Flask
Index(remote) ==
    LET movies == get_popular_movies(remote)
    IN /\ last' = [op |-> "index", language |-> get_tmdb_language,
                   remote |-> remote,
                   status |-> IF movies.raised THEN "error" ELSE "ok",
                   outcome |-> movies]
       /\ UNCHANGED <<users, ratings, favorites, session, inflight>>

(***************************************************************************)
(* search, search_results                                                  *)
(***************************************************************************)
\* app.get_genres
get_genres(remote) ==
    LET response == requests_get_json(remote)
    IN IF response.raised THEN response
       ELSE DictGet(response.value, "genres", EmptyList)

Search(remote) ==
    LET genres == get_genres(remote)
    IN /\ last' = [op |-> "search", language |-> get_tmdb_language,
                   remote |-> remote,
                   status |-> IF genres.raised THEN "error" ELSE "ok",
                   outcome |-> genres]
       /\ UNCHANGED <<users, ratings, favorites, session, inflight>>

\* int(genre_id): the integer the query parameter spells, if any
GenreInts == [g \in {"0", "12", "28"} |->
                CASE g = "0" -> 0 [] g = "12" -> 12 [] g = "28" -> 28]
ParseGenre(genre) ==
    IF genre \in DOMAIN GenreInts THEN Returned(GenreInts[genre])
    ELSE Raise("ValueError")

\* genre_id in x, genre_id an int: a list is searched, a dict is asked for
\* the key, anything else cannot be searched
Contains(x, genre_id) ==
    CASE x.t = "list" ->
           Returned(\E i \in 1..Len(x.v) : x.v[i].t = "num" /\ x.v[i].v = genre_id)
      [] x.t = "dict" -> Returned(FALSE)
      [] OTHER -> Raise("TypeError")

\* genre_id in m.get("genre_ids", [])
HasGenre(m, genre_id) ==
    LET genre_ids == DictGet(m, "genre_ids", EmptyList)
    IN IF genre_ids.raised THEN genre_ids ELSE Contains(genre_ids.value, genre_id)

\* (a faulty variant: the parameter is compared as the string it arrived as,
\* which no genre id of the catalog equals)
FilterByGenreAsString(results, genre_id) == Returned(<<>>)

\* [m for m in results if genre_id in m.get("genre_ids", [])], results a
\* sequence: the first element that cannot be tested raises
RECURSIVE FilterByGenre(_, _)
FilterByGenre(results, genre_id) ==
    IF results = <<>> THEN Returned(<<>>)
    ELSE LET keep == HasGenre(Head(results), genre_id)
             rest == FilterByGenre(Tail(results), genre_id)
         IN IF keep.raised THEN keep
            ELSE IF rest.raised THEN rest
            ELSE Returned(IF keep.value THEN <<Head(results)>> \o rest.value
                          ELSE rest.value)

\* if genre_id and genre_id != "0": the filtered list, else the list as it is
search_results(genre, remote) ==
    LET response == requests_get_json(remote)
        results == IF response.raised THEN response
                   ELSE DictGet(response.value, "results", EmptyList)
    IN IF results.raised THEN results
       ELSE IF genre = None \/ TheValue(genre) = "" \/ TheValue(genre) = "0"
       THEN results
       ELSE LET genre_id == ParseGenre(TheValue(genre))
            IN IF genre_id.raised THEN genre_id
               ELSE IF results.value.t # "list" THEN Raise("TypeError")
               ELSE LET kept == FilterByGenre(results.value.v, genre_id.value)
                    IN IF kept.raised THEN kept ELSE Returned(JList(kept.value))

SearchResults(query, genre, remote) ==
    LET results == search_results(genre, remote)
    IN /\ last' = [op |-> "search_results", query |-> query, genre |-> genre,
                   language |-> get_tmdb_language, remote |-> remote,
                   status |-> IF results.raised THEN "error" ELSE "ok",
                   outcome |-> results]
       /\ UNCHANGED <<users, ratings, favorites, session, inflight>>

(***************************************************************************)
(* movie_details                                                           *)
(***************************************************************************)
RECURSIVE GCD(_, _)
GCD(a, b) == IF b = 0 THEN a ELSE GCD(b, a % b)

\* (a faulty variant: floor division)
DivideFloor(a, b) ==
    IF b = 0 THEN Raise("ZeroDivisionError")
    ELSE Returned(JFloat(a \div b, 1))

\* a / b on integers a >= 0, b >= 0: the quotient as a fraction in lowest
\* terms, or ZeroDivisionError
Divide(a, b) ==
    IF b = 0 THEN Raise("ZeroDivisionError")
    ELSE Returned(JFloat(a \div GCD(a, b), b \div GCD(a, b)))

\* sum(r.rating for r in rows), rows a bag
RECURSIVE SumRatings(_)
SumRatings(rows) ==
    IF DOMAIN rows = {} THEN 0
    ELSE LET r == CHOOSE x \in DOMAIN rows : TRUE
         IN r.rating * rows[r] + SumRatings([x \in DOMAIN rows \ {r} |-> rows[x]])

\* len(rows)
LenRows(rows) == IF DOMAIN rows = {} THEN 0 ELSE BagCardinality(rows)

\* (a faulty variant: the guard "if ratings" is missing)
AverageRatingUnguarded(tbl, movie_id) ==
    LET rows == RatingsOfMovie(tbl, movie_id)
    IN Divide(SumRatings(rows), LenRows(rows))

\* sum(r.rating for r in ratings) / len(ratings) if ratings else None
AverageRating(tbl, movie_id) ==
    LET rows == RatingsOfMovie(tbl, movie_id)
    IN IF DOMAIN rows # {}
       THEN Divide(SumRatings(rows), LenRows(rows))
       ELSE Returned(JNull)

\* IMAGE_BASE_URL + movie["poster_path"] if movie.get("poster_path") else None
Poster(movie) ==
    LET path == DictGet(movie, "poster_path", JNull)
    IN IF path.raised THEN path
       ELSE IF ~Truthy(path.value) THEN Returned(JNull)
       ELSE IF path.value.t # "str" THEN Raise("TypeError")
       ELSE Returned(JStr(<<"https://image.tmdb.org/t/p/w500", path.value.v>>))

\* the user's own rating: None unless authenticated and a row exists
\* (a faulty variant: the rating row is looked up by movie only)
UserRatingOfAnyUser(tbl, movie_id) ==
    IF ~is_authenticated THEN {None}
    ELSE {IF r = None THEN None ELSE Some(TheValue(r).rating) :
            r \in First(BagToSet(RatingsOfMovie(tbl, movie_id)))}

UserRating(tbl, movie_id) ==
    IF ~is_authenticated THEN {None}
    ELSE {IF r = None THEN None ELSE Some(TheValue(r).rating) :
            r \in First(RatingsOf(tbl, current_user_id, movie_id))}

\* bool(fav) for the user's row, False unless authenticated
IsFavorite(tbl, movie_id) ==
    IF ~is_authenticated THEN {FALSE}
    ELSE {fav # None : fav \in First(FavoritesOf(tbl, current_user_id, movie_id))}

MovieDetails(movie_id, remote) ==
    LET movie == requests_get_json(remote)
        poster == IF movie.raised THEN movie ELSE Poster(movie.value)
        avg_rating == AverageRating(ratings, movie_id)
        failed == IF poster.raised THEN poster ELSE avg_rating
    IN /\ IF failed.raised
          THEN last' = [op |-> "movie_details", movie_id |-> movie_id,
                        remote |-> remote, status |-> "error", exc |-> failed.exc]
          ELSE \E user_rating \in UserRating(ratings, movie_id),
                  is_favorite \in IsFavorite(favorites, movie_id) :
                 last' = [op |-> "movie_details", movie_id |-> movie_id,
                          remote |-> remote, status |-> "ok",
                          movie |-> movie.value, poster |-> poster.value,
                          avg_rating |-> avg_rating.value,
                          user_rating |-> user_rating,
                          is_favorite |-> is_favorite]
       /\ UNCHANGED <<users, ratings, favorites, session, inflight>>

(***************************************************************************)
(* The account specification: registration, login and logout with every    *)
(* form input.                                                             *)
(***************************************************************************)
NextAuth ==
    \/ \E u \in Usernames, e \in Emails, p \in Passwords, s \in Salts :
          Register(u, e, p, s)
    \/ \E i \in Usernames \cup Emails, p \in Passwords : Login(i, p)
    \/ Logout

SpecAuth == Init /\ [][NextAuth]_vars

(***************************************************************************)
(* The application, one request at a time: two people register and log in, *)
(* and rate, favor and look at the movies.                                 *)
(***************************************************************************)
DetailRemotes(movie_id) ==
    {Response(200, Json(CatalogMovie(movie_id))), Timeout}

Next ==
    \/ \E p \in People, s \in {"s1"} : Register(p.username, p.email, p.password, s)
    \/ \E p \in People, q \in People : Login(p.username, q.password)
    \/ Logout
    \/ \E m \in Movies, f \in {"3", "5", "abc"} : RateMovie(m, f)
    \/ \E m \in Movies : AddFavorite(m)
    \/ \E m \in Movies : RemoveFavorite(m)
    \/ \E m \in Movies : \E r \in DetailRemotes(m) : MovieDetails(m, r)

Spec == Init /\ [][Next]_vars

(***************************************************************************)
(* The catalog: the language is switched, the functions of tmdb.py are     *)
(* called and the index page is opened, against every remote outcome.      *)
(***************************************************************************)
Limits == {1, 10}

NextCatalog ==
    \/ \E l \in Langs : SetLanguage(l)
    \/ \E r \in Remotes : TmdbGetPopularMovies(r)
    \/ \E m \in Movies, r \in Remotes : TmdbGetMovieDetails(m, r)
    \/ \E m \in Movies, n \in Limits, r \in Remotes : TmdbGetSimilarMovies(m, n, r)
    \/ \E r \in Remotes : TmdbGetGenres(r)
    \/ \E r \in Remotes : Index(r)

SpecCatalog == Init /\ [][NextCatalog]_vars

(***************************************************************************)
(* Concurrent requests: the worker threads serve registrations, and the    *)
(* favorites of whoever is logged in, for one movie.                       *)
(***************************************************************************)
NextConc ==
    \/ \E t \in Threads, p \in People, s \in {"s1"} :
          RegisterQuery(t, p.username, p.email, p.password, s)
    \/ \E t \in Threads : RegisterCommit(t)
    \/ \E p \in People : Login(p.username, p.password)
    \/ \E t \in Threads : AddFavoriteQuery(t, 42)
    \/ \E t \in Threads : AddFavoriteCommit(t)

SpecConc == Init /\ [][NextConc]_vars

(***************************************************************************)
(* Concurrent ratings: two people register and log in, and the worker      *)
(* threads serve the ratings of whoever is logged in, for one movie.       *)
(***************************************************************************)
NextConcRate ==
    \/ \E p \in People, s \in {"s1"} : Register(p.username, p.email, p.password, s)
    \/ \E p \in People : Login(p.username, p.password)
    \/ \E t \in Threads, f \in {"3", "5"} : RateMovieQuery(t, 42, f)
    \/ \E t \in Threads : RateMovieCommit(t)

SpecConcRate == Init /\ [][NextConcRate]_vars

(***************************************************************************)
(* Ratings alone, with every form value: two people rate the movies and    *)
(* look at them.                                                           *)
(***************************************************************************)
NextRatings ==
    \/ \E p \in People, s \in {"s1"} : Register(p.username, p.email, p.password, s)
    \/ \E p \in People : Login(p.username, p.password)
    \/ Logout
    \/ \E m \in Movies, f \in RatingForms : RateMovie(m, f)
    \/ \E m \in Movies : \E r \in DetailRemotes(m) : MovieDetails(m, r)

SpecRatings == Init /\ [][NextRatings]_vars

(***************************************************************************)
(* Searching: the search pages are opened with every genre parameter,      *)
(* against every result list the catalog may answer with.                  *)
(***************************************************************************)
MaxResults == 3

\* a catalog result with the given genre ids, and one with no genre-id list
SearchHit(movie_id, genre_ids) ==
    JDict([id |-> JNum(movie_id), genre_ids |-> JList(genre_ids)])
SearchHits ==
    { SearchHit(2, <<JNum(12), JNum(28)>>), SearchHit(3, <<JNum(12)>>),
      JDict([id |-> JNum(4)]) }

ResultLists == UNION {[1..n -> SearchHits] : n \in 0..MaxResults}

SearchRemotes ==
    {Response(200, Json(JDict([page |-> JNum(1), results |-> JList(l)]))) :
        l \in ResultLists}
    \cup {Timeout, Response(404, Json(ErrorBody)), Response(200, Json(GenresBody))}

GenreParams == {None} \cup {Some(g) : g \in {"0", "12", "28", "", "abc"}}

NextSearch ==
    \/ \E r \in {Response(200, Json(GenresBody)), Timeout} : Search(r)
    \/ \E g \in GenreParams, r \in SearchRemotes : SearchResults("Matrix", g, r)

SpecSearch == Init /\ [][NextSearch]_vars

(***************************************************************************)
(* Every page that the frame conditions name, one request at a time: two   *)
(* people register, log in and out, switch the language, rate and favor    *)
(* the movies, search, and look at a movie.                                *)
(***************************************************************************)
NextFrame ==
    \/ \E p \in People, s \in {"s1"} : Register(p.username, p.email, p.password, s)
    \/ \E p \in People : Login(p.username, p.password)
    \/ Logout
    \/ SetLanguage("en")
    \/ \E m \in Movies, f \in {"3", "5"} : RateMovie(m, f)
    \/ \E m \in Movies : AddFavorite(m)
    \/ \E m \in Movies : RemoveFavorite(m)
    \/ MovieDetails(42, Response(200, Json(CatalogMovie(42))))
    \/ Search(Timeout)
    \/ SearchResults("Matrix", None, Timeout)

SpecFrame == Init /\ [][NextFrame]_vars

(***************************************************************************)
(* Claims                                                                  *)
(***************************************************************************)
\* the password a stored hash was generated from
PasswordOf(user) == user.password_hash.digest[3]

\* C1: a register call that conflicts with no existing user (neither its
\* username nor its email is taken) succeeds and adds exactly one user, the
\* one submitted; a register call whose username or whose email is already
\* taken is rejected with the conflict outcome and adds no user.
C1_RegisterOnceThenConflict ==
    [][ last'.op = "register" =>
          IF \E r \in users : r.username = last'.username \/ r.email = last'.email
          THEN last'.status = "conflict" /\ users' = users
          ELSE /\ last'.status = "ok"
               /\ users \subseteq users'
               /\ Cardinality(users') = Cardinality(users) + 1
               /\ \A r \in users' \ users :
                     r.username = last'.username /\ r.email = last'.email
      ]_vars

\* C1 witness: with two users registered, a registration whose email is taken
\* but whose username is free has been rejected.
C1_Witness ==
    /\ last.op = "register" /\ last.status = "conflict"
    /\ Cardinality(users) = 2
    /\ \E r \in users : r.email = last.email
    /\ \A r \in users : r.username # last.username

\* C2: a login succeeds only as a user the identifier names whose stored hash
\* was generated from the supplied password, and it does succeed when every
\* user the identifier names has such a hash; a failed login leaves the
\* session alone and answers the same way whether the identifier names no
\* user or the password is wrong.
C2_LoginIffPasswordVerifies ==
    [][ last'.op = "login" =>
          LET named == {r \in users : r.username = last'.identifier
                                        \/ r.email = last'.identifier}
              verifying == {r \in named : PasswordOf(r) = last'.password}
          IN /\ last'.status \in {"ok", "invalid"}
             /\ last'.status = "ok" =>
                   \E r \in verifying : session'.user_id = Some(r.id)
             /\ (named # {} /\ verifying = named) => last'.status = "ok"
             /\ last'.status = "invalid" =>
                   /\ session' = session
                   /\ last'.flash = "Hibas adatok!" /\ last'.redirect = ""
      ]_vars

\* C2 witness: in a session that an earlier login opened, a login naming an
\* existing user with a wrong password has just failed.
C2_Witness ==
    /\ last.op = "login" /\ last.status = "invalid"
    /\ session.user_id # None
    /\ \E r \in users :
          /\ (r.username = last.identifier \/ r.email = last.identifier)
          /\ PasswordOf(r) # last.password

\* the number of rows of a table with the key (user_id, movie_id)
KeyCount(tbl, user_id, movie_id) ==
    LenRows([r \in {x \in BagToSet(tbl) : x.user_id = user_id /\ x.movie_id = movie_id}
               |-> CopiesIn(r, tbl)])

\* C3: a rate_movie call by an authenticated user u for movie m with value v
\* succeeds and leaves exactly one Rating row for (u, m), holding v; when a
\* row for (u, m) existed (an earlier call stored v1) the table has as many
\* rows as before: the row is overwritten in place.
C3_RateTwiceOneRow ==
    [][ (/\ last'.op = "rate_movie" /\ last'.status # "login_required"
         /\ ParseInt(last'.form) # None) =>
          /\ last'.status = "ok"
          /\ KeyCount(ratings', last'.user_id, last'.movie_id) = 1
          /\ \A r \in BagToSet(ratings') :
                (r.user_id = last'.user_id /\ r.movie_id = last'.movie_id)
                   => r.rating = TheValue(ParseInt(last'.form))
          /\ KeyCount(ratings, last'.user_id, last'.movie_id) >= 1
                => LenRows(ratings') = LenRows(ratings)
      ]_vars

\* C3 witness: a rating v1 has just been overwritten by a different v2.
C3_Witness ==
    /\ last.op = "rate_movie" /\ last.status = "ok"
    /\ last.existing # None
    /\ TheValue(last.existing).rating # TheValue(ParseInt(last.form))
    /\ KeyCount(ratings, last.user_id, last.movie_id) = 1

\* C4: after add_favorite by an authenticated user u for movie m there is
\* exactly one Favorite row for (u, m); when one existed already the call
\* leaves the table as it was and reports "already exists".
C4_AddFavoriteTwice ==
    [][ (last'.op = "add_favorite" /\ last'.status # "login_required") =>
          /\ KeyCount(favorites', last'.user_id, last'.movie_id) = 1
          /\ IF KeyCount(favorites, last'.user_id, last'.movie_id) >= 1
             THEN favorites' = favorites /\ last'.status = "already"
             ELSE last'.status = "ok"
      ]_vars

\* C4 witness: a second add_favorite has just reported "already exists" while
\* the table holds other rows too.
C4_Witness ==
    /\ last.op = "add_favorite" /\ last.status = "already"
    /\ KeyCount(favorites, last.user_id, last.movie_id) = 1
    /\ LenRows(favorites) >= 2

\* C5: after remove_favorite by an authenticated user u for movie m there is
\* no Favorite row for (u, m); when there was one the call reports success,
\* and when there was none it reports not-found, raises nothing and leaves
\* the table as it was.
C5_RemoveFavorite ==
    [][ (last'.op = "remove_favorite" /\ last'.status # "login_required") =>
          /\ KeyCount(favorites', last'.user_id, last'.movie_id) = 0
          /\ IF KeyCount(favorites, last'.user_id, last'.movie_id) >= 1
             THEN last'.status = "ok"
             ELSE last'.status = "not_found" /\ favorites' = favorites
      ]_vars

\* C5 witness: a remove_favorite with no row to remove has just reported
\* not-found, in a table that holds the user's favorite of another movie.
C5_Witness ==
    /\ last.op = "remove_favorite" /\ last.status = "not_found"
    /\ \E r \in BagToSet(favorites) :
          r.user_id = last.user_id /\ r.movie_id # last.movie_id

\* C6: with add_favorite requests for the same (user, movie) running
\* concurrently, their queries and commits interleaved in any order, no
\* Favorite row is ever stored twice, and once such a request has finished
\* there is exactly one Favorite row for its (user, movie).
C6_ConcurrentAddFavoriteOneRow ==
    /\ \A r \in BagToSet(favorites) : CopiesIn(r, favorites) = 1
    /\ (last.op = "add_favorite" /\ last.status # "login_required") =>
          KeyCount(favorites, last.user_id, last.movie_id) = 1

\* C6 witness: two add_favorite requests both passed the existence check, both
\* have finished, and one row is stored.
C6_Witness ==
    /\ last.op = "add_favorite" /\ last.status = "error"
    /\ \A t \in Threads : IsIdle(t)
    /\ KeyCount(favorites, last.user_id, last.movie_id) = 1

\* C7: a request (add_favorite, rate_movie, register) whose insert hits the
\* unique constraint after passing the existence check ends like the
\* pre-check path; none ends in the storage layer's IntegrityError.
C7_ConstraintViolationTranslated ==
    (last.op \in {"add_favorite", "rate_movie", "register"} /\ last.status = "error")
        => last.exc # "IntegrityError"

\* the failure classes the error policy of the catalog client names
IsFailedRemote(remote) ==
    \/ IsNetworkFailure(remote) \/ IsTimeout(remote)
    \/ IsNon2xx(remote) \/ IsMalformedBody(remote)

\* the fallback each operation of tmdb.py declares
DeclaredFallback(op) ==
    IF op = "tmdb.get_movie_details" THEN EmptyDict ELSE EmptyList

TmdbOps == {"tmdb.get_popular_movies", "tmdb.get_movie_details",
            "tmdb.get_similar_movies", "tmdb.get_genres"}

\* C8: each operation of tmdb.py, on a network failure, a timeout, a non-2xx
\* response or a body that is not JSON, returns its declared fallback (an
\* empty list; an empty mapping for the details) and does not raise.
C8_CatalogFallback ==
    (last.op \in TmdbOps /\ IsFailedRemote(last.remote)) =>
        /\ ~last.outcome.raised
        /\ last.outcome.value = DeclaredFallback(last.op)

\* C8 witness: get_movie_details has met a 200 response whose body is not
\* JSON, in an English session.
C8_Witness ==
    /\ last.op = "tmdb.get_movie_details"
    /\ last.remote = Response(200, NotJson)
    /\ session.lang = Some("en")
    /\ ~last.outcome.raised

\* C9: when the remote catalog times out or otherwise fails, the index page's
\* get_popular_movies (app.py) returns an empty list and raises nothing.
C9_IndexFallback ==
    (last.op = "index" /\ IsFailedRemote(last.remote)) =>
        /\ ~last.outcome.raised
        /\ last.outcome.value = EmptyList

\* C10: the average rating movie_details shows for movie m is None exactly
\* when no Rating row has movie_id = m, and otherwise is the sum of the
\* ratings of all rows for m divided by their number; the division never
\* divides by zero.
C10_AverageRating ==
    last.op = "movie_details" =>
        LET rows == [r \in {x \in BagToSet(ratings) : x.movie_id = last.movie_id}
                       |-> CopiesIn(r, ratings)]
        IN /\ last.status = "error" => last.exc # "ZeroDivisionError"
           /\ last.status = "ok" =>
                 IF LenRows(rows) = 0
                 THEN last.avg_rating.t = "null"
                 ELSE /\ last.avg_rating.t = "float"
                      /\ last.avg_rating.v[1] * LenRows(rows)
                            = SumRatings(rows) * last.avg_rating.v[2]

\* C10 witness: movie_details shows 4.0 for a movie rated 3 by one user and 5
\* by another.
C10_Witness ==
    /\ last.op = "movie_details" /\ last.status = "ok"
    /\ last.avg_rating = JFloat(4, 1)
    /\ \E a, b \in BagToSet(ratings) :
          /\ a.movie_id = last.movie_id /\ b.movie_id = last.movie_id
          /\ a.user_id # b.user_id /\ a.rating = 3 /\ b.rating = 5

\* the result list a remote answer carries
RemoteResults(remote) == remote.body.value.v.results.v
CarriesResults(remote) ==
    /\ remote.kind = "response" /\ remote.body.json
    /\ remote.body.value.t = "dict"
    /\ "results" \in DOMAIN remote.body.value.v

\* C11: with a genre parameter that is a genre id g other than "0",
\* search_results returns exactly the remote results whose genre-id list
\* contains g, in their original order, a result with no genre-id list being
\* left out; with the parameter "0" or absent it returns the remote results
\* as they are.
C11_SearchGenreFilter ==
    (last.op = "search_results" /\ CarriesResults(last.remote)) =>
        IF last.genre = None \/ last.genre = Some("0")
        THEN /\ ~last.outcome.raised
             /\ last.outcome.value.v = RemoteResults(last.remote)
        ELSE TheValue(last.genre) \in {"12", "28"} =>
               LET g == IF TheValue(last.genre) = "12" THEN 12 ELSE 28
                   Listed(m) ==
                       /\ "genre_ids" \in DOMAIN m.v
                       /\ \E i \in 1..Len(m.v.genre_ids.v) : m.v.genre_ids.v[i] = JNum(g)
               IN /\ ~last.outcome.raised
                  /\ last.outcome.value.v = SelectSeq(RemoteResults(last.remote), Listed)

\* C11 witness: a search with genre 12 has kept the second and the third of
\* three results and left out the first, which has no genre-id list.
C11_Witness ==
    /\ last.op = "search_results" /\ last.genre = Some("12")
    /\ CarriesResults(last.remote)
    /\ RemoteResults(last.remote) =
          <<JDict([id |-> JNum(4)]), SearchHit(3, <<JNum(12)>>),
            SearchHit(2, <<JNum(12), JNum(28)>>)>>
    /\ ~last.outcome.raised
    /\ last.outcome.value.v =
          <<SearchHit(3, <<JNum(12)>>), SearchHit(2, <<JNum(12), JNum(28)>>)>>

\* the rows of which a table holds more or fewer copies than before
ChangedRows(old, new) ==
    {r \in BagToSet(old) \cup BagToSet(new) : CopiesIn(r, old) # CopiesIn(r, new)}

WriteOps == {"rate_movie", "add_favorite", "remove_favorite"}

\* C12: a step that creates, updates or deletes a Rating or Favorite row is
\* taken for a session that resolves to a user, and every row it touches has
\* that user's id; a rate_movie, add_favorite or remove_favorite request in a
\* session with no resolved user (never logged in, or logged out since) is
\* sent to the login view and changes no row.
C12_WritesNeedIdentity ==
    [][ /\ (ChangedRows(ratings, ratings') \cup ChangedRows(favorites, favorites')) # {}
            => \E u \in users :
                  /\ session.user_id = Some(u.id)
                  /\ \A r \in ChangedRows(ratings, ratings')
                              \cup ChangedRows(favorites, favorites') :
                        r.user_id = u.id
        /\ (/\ last'.op \in WriteOps
            /\ \/ session.user_id = None
               \/ last.op = "start"
               \/ (last.op = "logout" /\ last.status = "ok"))
            => /\ last'.status = "login_required"
               /\ ratings' = ratings /\ favorites' = favorites
      ]_vars

\* C12 witness: after a user rated and logged out, a rate_movie request has
\* been sent to the login view.
C12_Witness ==
    /\ last.op = "rate_movie" /\ last.status = "login_required"
    /\ session.user_id = None
    /\ ratings # EmptyBag /\ favorites # EmptyBag

\* C13: the language code sent on catalog requests, by get_tmdb_language of
\* app.py (index) and of tmdb.py (popular, details, genres), is hu-HU when the
\* session preference is 'hu' or unset and en-US for any other stored value.
C13_LanguageCode ==
    last.op \in {"index", "tmdb.get_popular_movies", "tmdb.get_movie_details",
                 "tmdb.get_genres"} =>
        last.language = IF session.lang = None \/ session.lang = Some("hu")
                        THEN "hu-HU" ELSE "en-US"

\* C13 witness: the index page has asked the catalog in en-US in a session
\* whose preference is 'en'.
C13_Witness ==
    /\ last.op = "index" /\ session.lang = Some("en")
    /\ last.language = "en-US"

\* C14: get_similar_movies asks for movie/<id>/similar in en-US whatever the
\* session preference is, so the request does not differ between sessions
\* that differ in the preference only.
C14_SimilarMoviesLanguage ==
    last.op = "tmdb.get_similar_movies" =>
        /\ last.language = "en-US"
        /\ \E m \in Movies : last.endpoint = <<"movie", m, "similar">>

\* C14 witness: similar movies have been fetched and returned in a session
\* whose preference is 'hu'.
C14_Witness ==
    /\ last.op = "tmdb.get_similar_movies" /\ session.lang = Some("hu")
    /\ last.remote = Response(200, Json(PopularBody))
    /\ ~last.outcome.raised /\ last.outcome.value.v # <<>>

\* C15: when the remote detail fetch fails (network failure, timeout, non-2xx
\* or malformed body) movie_details still completes and returns the local
\* data: the average rating, the user's own rating and the favorite status.
C15_DetailsSurviveRemoteFailure ==
    (last.op = "movie_details" /\ IsFailedRemote(last.remote)) =>
        /\ last.status = "ok"
        /\ Returned(last.avg_rating) = AverageRating(ratings, last.movie_id)
        /\ last.user_rating \in UserRating(ratings, last.movie_id)
        /\ last.is_favorite \in IsFavorite(favorites, last.movie_id)

\* C18: movie_details reports user_rating = the value of the current user's
\* Rating row for the movie when the session is authenticated and the row
\* exists, None otherwise, and is_favorite = TRUE exactly when the session is
\* authenticated and the current user has a Favorite row for the movie.
C18_OwnRatingAndFavorite ==
    (last.op = "movie_details" /\ last.status = "ok") =>
        LET own == {r \in BagToSet(ratings) :
                       /\ session.user_id = Some(r.user_id)
                       /\ r.movie_id = last.movie_id}
            fav == {f \in BagToSet(favorites) :
                       /\ session.user_id = Some(f.user_id)
                       /\ f.movie_id = last.movie_id}
        IN /\ IF own = {} THEN last.user_rating = None
              ELSE \A r \in own : last.user_rating = Some(r.rating)
           /\ last.is_favorite = (fav # {})

\* C18 witness: the page was served to a signed-in user who has neither rated
\* nor marked the movie, while another user has done both.
C18_Witness ==
    /\ last.op = "movie_details" /\ last.status = "ok"
    /\ session.user_id # None
    /\ last.user_rating = None /\ last.is_favorite = FALSE
    /\ \E r \in BagToSet(ratings) :
          r.movie_id = last.movie_id /\ session.user_id # Some(r.user_id)
    /\ \E f \in BagToSet(favorites) :
          f.movie_id = last.movie_id /\ session.user_id # Some(f.user_id)

\* C16: a login whose identifier equals registered user U's username or U's
\* email, with U's password, succeeds and resolves the session identity to U
\* and to no other user, also when one user's username is another user's
\* email (stated for the U that is the only named user with that password).
C16_LoginResolvesToNamedUser ==
    [][ last'.op = "login" =>
          LET named == {r \in users : r.username = last'.identifier
                                        \/ r.email = last'.identifier}
              verifying == {r \in named : PasswordOf(r) = last'.password}
          IN \A U \in verifying :
                verifying = {U} =>
                    /\ last'.status = "ok"
                    /\ session'.user_id = Some(U.id)
      ]_vars

\* C17: under any interleaving of the query and commit steps of concurrent
\* rate_movie requests there is at most one Rating row per (user_id,
\* movie_id); every value a step writes is the value the request finishing in
\* that step submitted, and a request that has finished leaves a row for its
\* key behind, so the stored value is one of the submitted values.
C17_ConcurrentRateOneRow ==
    [][ /\ \A r \in BagToSet(ratings') : KeyCount(ratings', r.user_id, r.movie_id) = 1
        /\ ratings' # ratings =>
              /\ last'.op = "rate_movie" /\ last'.status = "ok"
              /\ \A r \in ChangedRows(ratings, ratings') :
                    CopiesIn(r, ratings') > 0 =>
                        r = [user_id |-> last'.user_id, movie_id |-> last'.movie_id,
                             rating |-> TheValue(ParseInt(last'.form))]
        /\ (last' # last /\ last'.op = "rate_movie"
                /\ last'.status \in {"ok", "error"} /\ ParseInt(last'.form) # None) =>
              /\ KeyCount(ratings', last'.user_id, last'.movie_id) = 1
              /\ \A r \in RatingsOf(ratings', last'.user_id, last'.movie_id) :
                    \/ r.rating = TheValue(ParseInt(last'.form))
                    \/ r \in RatingsOf(ratings, last'.user_id, last'.movie_id)
      ]_vars

\* C17 witness: two rate_movie requests for the same key overlapped and both
\* have finished; the one that finished last answered success, and the row
\* holds the value the other one submitted.
C17_Witness ==
    /\ last.op = "rate_movie" /\ last.status = "ok"
    /\ \A t \in Threads : IsIdle(t)
    /\ KeyCount(ratings, last.user_id, last.movie_id) = 1
    /\ \E r \in RatingsOf(ratings, last.user_id, last.movie_id) :
          r.rating # TheValue(ParseInt(last.form))

\* C19: the stored language preference is always unset, 'hu' or 'en'; a
\* set_language request stores its argument when that is 'hu' or 'en' and
\* 'hu' otherwise, and a stored preference is never unset again; in every
\* such state get_tmdb_language of app.py and of tmdb.py return the same code.
C19_StoredLanguage ==
    [][ /\ session'.lang \in {None, Some("hu"), Some("en")}
        /\ last'.op = "set_language" =>
              session'.lang = Some(IF last'.lang = "en" THEN "en" ELSE "hu")
        /\ session.lang # None => session'.lang # None
        /\ get_tmdb_language' = tmdb_get_tmdb_language'
      ]_vars

\* C19 witness: set_language was called with an argument outside {hu, en} and
\* 'hu' is stored.
C19_Witness ==
    /\ last.op = "set_language" /\ last.lang \notin {"hu", "en"}
    /\ session.lang = Some("hu")
    /\ get_tmdb_language = "hu-HU" /\ tmdb_get_tmdb_language = "hu-HU"

ReadOps == {"login", "logout", "set_language", "search", "search_results",
            "movie_details"}

\* C20: rate_movie by user u for movie m changes at most the Rating row
\* (u, m) and no Favorite or User row; add_favorite and remove_favorite by u
\* for m change at most the Favorite row (u, m) and no Rating or User row;
\* login, logout, set_language, search and movie_details change no row; no
\* step deletes a User row or a Rating row.
C20_WritesTouchOwnRow ==
    [][ /\ last'.op = "rate_movie" =>
              /\ users' = users /\ favorites' = favorites
              /\ \A r \in ChangedRows(ratings, ratings') :
                    session.user_id = Some(r.user_id) /\ r.movie_id = last'.movie_id
        /\ last'.op \in {"add_favorite", "remove_favorite"} =>
              /\ users' = users /\ ratings' = ratings
              /\ \A f \in ChangedRows(favorites, favorites') :
                    session.user_id = Some(f.user_id) /\ f.movie_id = last'.movie_id
              /\ Cardinality(ChangedRows(favorites, favorites')) <= 1
        /\ last'.op \in ReadOps =>
              users' = users /\ ratings' = ratings /\ favorites' = favorites
        /\ users \subseteq users'
        /\ \A r \in BagToSet(ratings) :
              KeyCount(ratings', r.user_id, r.movie_id) >= 1
      ]_vars

\* C20 witness: a favorite has just been removed while the same user's other
\* favorite, another user's favorite of the same movie, and ratings of both
\* users are stored.
C20_Witness ==
    /\ last.op = "remove_favorite" /\ last.status = "ok"
    /\ \E f \in BagToSet(favorites) :
          f.user_id = last.user_id /\ f.movie_id # last.movie_id
    /\ \E f \in BagToSet(favorites) :
          f.user_id # last.user_id /\ f.movie_id = last.movie_id
    /\ \E r1 \in BagToSet(ratings), r2 \in BagToSet(ratings) :
          r1.user_id # r2.user_id

====
